---- MODULE Spec2Model ----
(***************************************************************************)
(* photo-fingerprint: the directory walker (a traversal thread feeding a   *)
(* locked queue), the consumption loops of FingerprintStore (Load,         *)
(* Generate, FindDuplicates, ExtractMetadata), RunWorkers' thread pool and *)
(* the match classification of FindMatchesForImage.                        *)
(*                                                                         *)
(* DirectoryWalker.cpp, Util.cpp and FingerprintStore.hpp are not part of  *)
(* the sources at hand: Traverse, GetNext, Finish, IsSupportedImage and    *)
(* the two distortion thresholds follow the specification's description.  *)
(***************************************************************************)
EXTENDS Integers, Sequences, FiniteSets, TLC

(***************************************************************************)
(* Bounds of the model.                                                    *)
(***************************************************************************)
MaxFiles == 3
MaxThreads == 2
MaxFps == 2
MaxScore == 4

(***************************************************************************)
(* The two fixed thresholds of the comparison metric.                      *)
(***************************************************************************)
LowDistortionThreshold == 1
HighDistortionThreshold == 3

(***************************************************************************)
(* Directory entries.  An entry is a path (dir/stem.ext) together with     *)
(* what the image backend finds in the file: whether image.read succeeds,  *)
(* whether the calls made on the image once read (compressType, resize,    *)
(* compare, write) succeed or throw, its "comment" attribute, its          *)
(* "exif:DateTimeOriginal" attribute (a sequence of characters, empty when *)
(* absent) and its pixels.                                                 *)
(***************************************************************************)
Entry(d, s, e, r, snd, c, x, px) ==
    [dir |-> d, stem |-> s, ext |-> e, readable |-> r, sound |-> snd,
     comment |-> c, exif |-> x, pixels |-> px]

\* "2021:05:04 10:00:00", character by character.
ExifStamp ==
    << "2", "0", "2", "1", ":", "0", "5", ":", "0", "4", " ",
       "1", "0", ":", "0", "0", ":", "0", "0" >>

\* "2019:12: 7 23:59:60": the day written with a blank for its first digit.
PaddedStamp ==
    << "2", "0", "1", "9", ":", "1", "2", ":", " ", "7", " ",
       "2", "3", ":", "5", "9", ":", "6", "0" >>

NoEntry == Entry("", "", "", FALSE, FALSE, "", << >>, 0)

\* The image directory walked by the workers.
Universe ==
    { Entry("a", "x", "jpg", TRUE, TRUE, "", ExifStamp, 0),
      Entry("b", "x", "jpg", TRUE, TRUE, "", << >>, 1),
      Entry("a", "y", "png", FALSE, FALSE, "", << >>, 0),
      Entry("b", "w", "jpg", TRUE, FALSE, "", PaddedStamp, 2),
      Entry("a", "notes", "txt", TRUE, TRUE, "", << >>, 0) }

\* The fingerprint directory read by Load.
FpUniverse ==
    { Entry("B", "x", "tif", TRUE, TRUE, "a/x.jpg", << >>, 0),
      Entry("B", "z", "tif", TRUE, TRUE, "", << >>, 3),
      Entry("B", "bad", "tif", FALSE, FALSE, "", << >>, 0),
      Entry("B", "index", "txt", TRUE, TRUE, "", << >>, 0) }

AllEntries == Universe \cup FpUniverse

SupportedExtensions == {"jpg", "png", "tif"}

DstChoices == {"B/", "B"}

Modes == {"generate", "find", "metadata"}

\* Sequences over S of length at most n without repetition: the order in
\* which the filesystem enumerates a directory tree.
InjSeqs(S, n) ==
    UNION { { s \in [1..k -> S] : \A i, j \in 1..k : i # j => s[i] # s[j] }
            : k \in 0..n }

Range(s) == { s[i] : i \in 1..Len(s) }

\* boost::filesystem::path::string()
PathString(p) == p.dir \o "/" \o p.stem \o "." \o p.ext

\* Util::IsSupportedImage: a predicate on the path's extension.
IsSupportedImage(p) == p.ext \in SupportedExtensions

VARIABLES
    mode,          \* WorkerOptions.WType
    numThreads,    \* WorkerOptions.NumThreads
    dstDirectory,  \* WorkerOptions.DstDirectory as given (Generate)
    imageTree,     \* enumeration order of the directory the workers walk
    fpTree,        \* enumeration order of the fingerprint directory (Load)
    walker,        \* which DirectoryWalker is alive
    todo,          \* entries the traversal thread has yet to reach
    Queue,         \* DirectoryWalker::Queue
    Completed,     \* the walker's traversal-complete flag
    travpc,        \* the traversal thread
    mainpc,        \* the main thread
    spawned,       \* RunWorkers: threads started so far
    joined,        \* RunWorkers: threads joined so far
    pc,            \* each worker thread's position
    next,          \* each consumer's `next` (0 is Load's loop)
    Fingerprints,  \* FingerprintStore::Fingerprints
    outFiles,      \* files written by Generate
    stdout,        \* lines printed to std::cout
    stderr,        \* lines printed to std::cerr
    returned,      \* history: how often GetNext returned each entry
    handled,       \* history: entries that got past the filter
    processed,     \* history: entries whose handler ran to its end
    scored,        \* history: the distortion of each compared pair
    doneSeen,      \* history: some GetNext returned (no path, done)
    loaded,        \* history: Load has returned
    crashed,       \* an exception left a thread (std::terminate)
    cli,           \* main: the command line and how main left it
    widget         \* the review widget (frontend/widget.cpp)

vars == << mode, numThreads, dstDirectory, imageTree, fpTree, walker, todo,
           Queue, Completed, travpc, mainpc, spawned, joined, pc, next,
           Fingerprints, outFiles, stdout, stderr, returned, handled,
           processed, scored, doneSeen, loaded, crashed, cli, widget >>

\* main has accepted its command line and is running the chosen mode.
CliDispatched == [pc |-> "dispatched"]

\* The widget as constructed: no file loaded.
WidgetIdle == [pc |-> "constructed"]

Workers == 1..MaxThreads
Consumers == 0..MaxThreads

NoNext == [has |-> FALSE, entry |-> NoEntry, completed |-> FALSE]


(***************************************************************************)
(* DirectoryWalker.                                                        *)
(***************************************************************************)

\* Variant: an empty queue is reported as done whether or not the traversal
\* has finished.
GetNextResult_DoneWhenEmpty(q, c) ==
    IF q # << >>
    THEN [has |-> TRUE, entry |-> Head(q), completed |-> FALSE]
    ELSE [has |-> FALSE, entry |-> NoEntry, completed |-> TRUE]

\* GetNext, under the lock: the front of the queue and "not done", or no
\* path and the completion flag.
GetNextResult(q, c) ==
    IF q # << >>
    THEN [has |-> TRUE, entry |-> Head(q), completed |-> FALSE]
    ELSE [has |-> FALSE, entry |-> NoEntry, completed |-> c]

\* Variant: the front is read but not popped.
GetNextQueue_NoPop(q) == q

GetNextQueue(q) == IF q # << >> THEN Tail(q) ELSE q

\* Consumer c calls GetNext and keeps the pair in its local `next`.
CallGetNext(c) ==
    LET r == GetNextResult(Queue, Completed) IN
    /\ next' = [next EXCEPT ![c] = r]
    /\ Queue' = GetNextQueue(Queue)
    /\ returned' = IF r.has THEN [returned EXCEPT ![r.entry] = @ + 1]
                            ELSE returned
    /\ doneSeen' = (doneSeen \/ (~r.has /\ r.completed))

\* Traverse(true): a fresh walker starts its traversal thread on `tree`.
Traverse(id, tree) ==
    /\ walker' = id
    /\ todo' = tree
    /\ Queue' = << >>
    /\ Completed' = FALSE
    /\ travpc' = "walking"
    /\ doneSeen' = FALSE

\* What the traversal thread appends for the entry it has reached.
Enqueue(q, e) == Append(q, e)

\* The traversal thread pushes the next entry it encounters, under the lock.
TraversePush ==
    /\ ~crashed
    /\ travpc = "walking"
    /\ todo # << >>
    /\ Queue' = Enqueue(Queue, Head(todo))
    /\ todo' = Tail(todo)
    /\ UNCHANGED << mode, numThreads, dstDirectory, imageTree, fpTree, walker,
                    Completed, travpc, mainpc, spawned, joined, pc, next,
                    Fingerprints, outFiles, stdout, stderr, returned, handled,
                    processed, scored, doneSeen, loaded, crashed,
                    cli, widget >>

\* Variant: the flag is set, and the thread ends, with entries still to walk.
TraverseComplete_BeforeWalkEnds ==
    /\ ~crashed
    /\ travpc = "walking"
    /\ Completed' = TRUE
    /\ travpc' = "done"
    /\ UNCHANGED << mode, numThreads, dstDirectory, imageTree, fpTree, walker,
                    todo, Queue, mainpc, spawned, joined, pc, next,
                    Fingerprints, outFiles, stdout, stderr, returned, handled,
                    processed, scored, doneSeen, loaded, crashed,
                    cli, widget >>

\* The walk has returned: the traversal thread sets the completion flag and
\* ends.
TraverseComplete ==
    /\ ~crashed
    /\ travpc = "walking"
    /\ todo = << >>
    /\ Completed' = TRUE
    /\ travpc' = "done"
    /\ UNCHANGED << mode, numThreads, dstDirectory, imageTree, fpTree, walker,
                    todo, Queue, mainpc, spawned, joined, pc, next,
                    Fingerprints, outFiles, stdout, stderr, returned, handled,
                    processed, scored, doneSeen, loaded, crashed,
                    cli, widget >>

(***************************************************************************)
(* The consumption loop shared by Load, Generate, FindDuplicates and       *)
(* ExtractMetadata: what the loop does with the pair GetNext returned.     *)
(***************************************************************************)
\* Variant: the loop ends as soon as the queue is found empty.
LoopControl_BreakOnEmpty(n) ==
    IF ~n.has THEN "break"
    ELSE IF ~IsSupportedImage(n.entry) THEN "discard"
    ELSE "handle"

\* Variant: the extension filter is missing.
LoopControl_NoFilter(n) ==
    IF ~n.has /\ n.completed THEN "break"
    ELSE IF ~n.has /\ ~n.completed THEN "sleep"
    ELSE "handle"

LoopControl(n) ==
    IF ~n.has /\ n.completed THEN "break"
    ELSE IF ~n.has /\ ~n.completed THEN "sleep"
    ELSE IF ~IsSupportedImage(n.entry) THEN "discard"
    ELSE "handle"

(***************************************************************************)
(* main: find-duplicates mode loads the store first, the other modes go    *)
(* straight to the worker pool.                                            *)
(***************************************************************************)
\* Variant: find-duplicates mode starts the workers without loading.
MainEntry_SkipLoad(m) == "run"

MainEntry(m) == IF m = "find" THEN "load" ELSE "run"

Init ==
    /\ mode \in Modes
    /\ numThreads \in 1..MaxThreads
    /\ dstDirectory \in (IF mode = "generate" THEN DstChoices ELSE {""})
    /\ imageTree \in InjSeqs(Universe, MaxFiles)
    /\ fpTree \in (IF mode = "find" THEN InjSeqs(FpUniverse, MaxFps)
                                    ELSE {<< >>})
    /\ walker = "none"
    /\ todo = << >>
    /\ Queue = << >>
    /\ Completed = FALSE
    /\ travpc = "none"
    /\ mainpc = MainEntry(mode)
    /\ spawned = 0
    /\ joined = 0
    /\ pc = [w \in Workers |-> "idle"]
    /\ next = [c \in Consumers |-> NoNext]
    /\ Fingerprints = << >>
    /\ outFiles = {}
    /\ stdout = {}
    /\ stderr = {}
    /\ returned = [e \in AllEntries |-> 0]
    /\ handled = {}
    /\ processed = {}
    /\ scored = {}
    /\ doneSeen = FALSE
    /\ loaded = FALSE
    /\ crashed = FALSE
    /\ cli = CliDispatched
    /\ widget = WidgetIdle

(***************************************************************************)
(* FingerprintStore::Load, run by the main thread.                         *)
(***************************************************************************)
\* The lines Load prints: its heading, the running count after each image
\* stored, and the closing line.
LoadingLine == [load |-> "Loading fingerprints into memory..."]

CountLine(loadedCount) == [load |-> "\r", loadedCount |-> loadedCount]

DoneLine == [load |-> "\rDONE"]

\* Everything a Load that stored n images has printed.
LoadOutput(n) == {LoadingLine, DoneLine} \cup { CountLine(k) : k \in 1..n }

LoadTraverse ==
    /\ ~crashed
    /\ mainpc = "load"
    /\ Traverse("load", fpTree)
    /\ stdout' = stdout \cup {LoadingLine}
    /\ mainpc' = "load_getnext"
    /\ UNCHANGED << mode, numThreads, dstDirectory, imageTree, fpTree,
                    spawned, joined, pc, next, Fingerprints, outFiles,
                    stderr, returned, handled, processed, scored, loaded, crashed,
                    cli, widget >>

LoadGetNext ==
    /\ ~crashed
    /\ mainpc = "load_getnext"
    /\ CallGetNext(0)
    /\ mainpc' = "load_body"
    /\ UNCHANGED << mode, numThreads, dstDirectory, imageTree, fpTree, walker,
                    todo, Completed, travpc, spawned, joined, pc,
                    Fingerprints, outFiles, stdout, stderr, handled,
                    processed, scored, loaded, crashed,
                    cli, widget >>

\* Variant: the collection keeps only the image read last.
StoreFingerprint_KeepLast(fps, e) == << [image |-> e, stem |-> e.stem] >>

\* Fingerprints.push_back(std::pair(image, stem))
StoreFingerprint(fps, e) == Append(fps, [image |-> e, stem |-> e.stem])

\* image.read in Load is not inside a try block.
LoadOutcome(e) == IF e.readable THEN "loaded" ELSE "uncaught"

LoadBody ==
    /\ ~crashed
    /\ mainpc = "load_body"
    /\ LET n == next[0]
           ctl == LoopControl(n)
           out == LoadOutcome(n.entry)
       IN  /\ mainpc' = IF ctl = "break" THEN "load_finish" ELSE "load_getnext"
           /\ next' = [next EXCEPT ![0] = NoNext]
           /\ handled' = IF ctl = "handle" THEN handled \cup {n.entry}
                                           ELSE handled
           /\ Fingerprints' =
                 IF ctl = "handle" /\ out = "loaded"
                 THEN StoreFingerprint(Fingerprints, n.entry)
                 ELSE Fingerprints
           /\ processed' = IF ctl = "handle" /\ out = "loaded"
                           THEN processed \cup {n.entry} ELSE processed
           /\ stdout' = IF ctl = "handle" /\ out = "loaded"
                        THEN stdout \cup
                               {CountLine(Cardinality(processed) + 1)}
                        ELSE stdout
           /\ crashed' = (ctl = "handle" /\ out = "uncaught")
    /\ UNCHANGED << mode, numThreads, dstDirectory, imageTree, fpTree, walker,
                    todo, Queue, Completed, travpc, spawned, joined, pc,
                    outFiles, stderr, scored, returned, doneSeen,
                    loaded,
                    cli, widget >>

\* dw.Finish() joins the traversal thread; Load returns and its walker goes
\* out of scope.
LoadFinish ==
    /\ ~crashed
    /\ mainpc = "load_finish"
    /\ travpc = "done"
    /\ travpc' = "joined"
    /\ walker' = "destroyed"
    /\ stdout' = stdout \cup {DoneLine}
    /\ loaded' = TRUE
    /\ mainpc' = "run"
    /\ UNCHANGED << mode, numThreads, dstDirectory, imageTree, fpTree, todo,
                    Queue, Completed, spawned, joined, pc, next, Fingerprints,
                    outFiles, stderr, returned, handled, processed, scored,
                    doneSeen, crashed,
                    cli, widget >>


(***************************************************************************)
(* FingerprintStore::RunWorkers, run by the main thread.                   *)
(***************************************************************************)
RunWorkersTraverse ==
    /\ ~crashed
    /\ mainpc = "run"
    /\ Traverse("run", imageTree)
    /\ mainpc' = "spawn"
    /\ UNCHANGED << mode, numThreads, dstDirectory, imageTree, fpTree,
                    spawned, joined, pc, next, Fingerprints, outFiles, stdout,
                    stderr, returned, handled, processed, scored, loaded, crashed,
                    cli, widget >>

\* One turn of the loop that starts the threads.
SpawnThread ==
    /\ ~crashed
    /\ mainpc = "spawn"
    /\ spawned < numThreads
    /\ pc' = [pc EXCEPT ![spawned + 1] = "getnext"]
    /\ spawned' = spawned + 1
    /\ mainpc' = IF spawned + 1 < numThreads THEN "spawn" ELSE "join"
    /\ UNCHANGED << mode, numThreads, dstDirectory, imageTree, fpTree, walker,
                    todo, Queue, Completed, travpc, joined, next,
                    Fingerprints, outFiles, stdout, stderr, returned, handled,
                    processed, scored, doneSeen, loaded, crashed,
                    cli, widget >>

\* Variant: join returns at once, whatever the thread is doing.
JoinReturns_NoWait(p) == TRUE

\* thread.join() returns once the thread's function has returned.
JoinReturns(p) == p = "exited"

\* One turn of the loop that joins the threads.
JoinThread ==
    /\ ~crashed
    /\ mainpc = "join"
    /\ joined < numThreads
    /\ JoinReturns(pc[joined + 1])
    /\ joined' = joined + 1
    /\ mainpc' = IF joined + 1 < numThreads THEN "join" ELSE "finish"
    /\ UNCHANGED << mode, numThreads, dstDirectory, imageTree, fpTree, walker,
                    todo, Queue, Completed, travpc, spawned, pc, next,
                    Fingerprints, outFiles, stdout, stderr, returned, handled,
                    processed, scored, doneSeen, loaded, crashed,
                    cli, widget >>

\* dw->Finish(): blocks until the traversal thread has terminated.
Finish ==
    /\ ~crashed
    /\ mainpc = "finish"
    /\ travpc = "done"
    /\ travpc' = "joined"
    /\ mainpc' = "delete"
    /\ UNCHANGED << mode, numThreads, dstDirectory, imageTree, fpTree, walker,
                    todo, Queue, Completed, spawned, joined, pc, next,
                    Fingerprints, outFiles, stdout, stderr, returned, handled,
                    processed, scored, doneSeen, loaded, crashed,
                    cli, widget >>

\* delete dw; RunWorkers returns.
DeleteWalker ==
    /\ ~crashed
    /\ mainpc = "delete"
    /\ walker' = "deleted"
    /\ mainpc' = "done"
    /\ UNCHANGED << mode, numThreads, dstDirectory, imageTree, fpTree, todo,
                    Queue, Completed, travpc, spawned, joined, pc, next,
                    Fingerprints, outFiles, stdout, stderr, returned, handled,
                    processed, scored, doneSeen, loaded, crashed,
                    cli, widget >>

(***************************************************************************)
(* The worker threads.  Each turn of a worker's loop is two steps: the     *)
(* call of GetNext, and the rest of the loop body.                         *)
(***************************************************************************)
WorkerGetNext(w) ==
    /\ ~crashed
    /\ pc[w] = "getnext"
    /\ CallGetNext(w)
    /\ pc' = [pc EXCEPT ![w] = "body"]
    /\ UNCHANGED << mode, numThreads, dstDirectory, imageTree, fpTree, walker,
                    todo, Completed, travpc, mainpc, spawned, joined,
                    Fingerprints, outFiles, stdout, stderr, handled,
                    processed, scored, loaded, crashed,
                    cli, widget >>

\* Variant: an unsupported entry ends the loop (break for continue).
LoopPc_BreakOnDiscard(ctl) ==
    IF ctl \in {"break", "discard"} THEN "exited" ELSE "getnext"

\* Where the loop goes after the body: out of the loop, or round again.
LoopPc(ctl) == IF ctl = "break" THEN "exited" ELSE "getnext"

\* The part of a loop body the three worker functions have in common.
LoopStep(w, ctl, out) ==
    /\ pc' = [pc EXCEPT ![w] = LoopPc(ctl)]
    /\ next' = [next EXCEPT ![w] = IF ctl = "break" THEN @ ELSE NoNext]
    /\ handled' = IF ctl = "handle" THEN handled \cup {next[w].entry}
                                    ELSE handled
    /\ crashed' = (ctl = "handle" /\ out = "uncaught")

(***************************************************************************)
(* Generate.                                                               *)
(***************************************************************************)
\* entry.filename().replace_extension(".tif"), appended to dest with +=.
OutputFilename(dest, e) == dest \o e.stem \o ".tif"

\* The try block: read, normalise, resize, stamp the comment, write; an
\* exception of any of these calls is caught.
GenerateOutcome(e) ==
    IF e.readable /\ e.sound THEN "written" ELSE "caught"

\* image.write(outputFilename): the file of that name now holds this image.
WriteFile(files, name, e) ==
    { f \in files : f.name # name }
        \cup { [name |-> name, comment |-> PathString(e),
                pixels |-> e.pixels] }

Generate(w) ==
    /\ ~crashed
    /\ mode = "generate"
    /\ pc[w] = "body"
    /\ LET e == next[w].entry
           ctl == LoopControl(next[w])
           out == GenerateOutcome(e)
       IN  /\ LoopStep(w, ctl, out)
           /\ stdout' = IF ctl = "handle"
                        THEN stdout \cup {[line |-> PathString(e)]}
                        ELSE stdout
           /\ outFiles' = IF ctl = "handle" /\ out = "written"
                          THEN WriteFile(outFiles,
                                         OutputFilename(dstDirectory, e), e)
                          ELSE outFiles
           /\ stderr' = IF ctl = "handle" /\ out = "caught"
                        THEN stderr \cup {[skipping |-> PathString(e)]}
                        ELSE stderr
           /\ processed' = IF ctl = "handle" /\ out = "written"
                           THEN processed \cup {e} ELSE processed
    /\ UNCHANGED << mode, numThreads, dstDirectory, imageTree, fpTree, walker,
                    todo, Queue, Completed, travpc, mainpc, spawned, joined,
                    Fingerprints, scored, returned, doneSeen, loaded,
                    cli, widget >>


(***************************************************************************)
(* FindMatchesForImage and FindDuplicates.                                 *)
(***************************************************************************)
\* image.compare(fingerprint, RootMeanSquaredErrorMetric): the backend's
\* distortion of two images, 0 for equal pixels.
Distortion(img, fp) ==
    IF img.pixels >= fp.pixels THEN img.pixels - fp.pixels
                               ELSE fp.pixels - img.pixels

\* Variant: the name is always the file's stem.
FingerprintName_StemOnly(fp) == fp.stem

\* The comment attribute if there is one, the file's stem otherwise.
FingerprintName(fp) ==
    IF fp.image.comment = "" THEN fp.stem ELSE fp.image.comment

\* Variant: the first branch does not `continue`.
Verdicts_NoContinue(d) ==
    (IF d < LowDistortionThreshold THEN {"is identical to"} ELSE {})
        \cup (IF d < HighDistortionThreshold THEN {"is similar to"} ELSE {})

\* The lines one fingerprint's distortion makes the loop body print.
Verdicts(d) ==
    IF d < LowDistortionThreshold THEN {"is identical to"}
    ELSE IF d < HighDistortionThreshold THEN {"is similar to"}
    ELSE {}

\* The lines FindMatchesForImage prints for one image, given the distortion
\* of each fingerprint of the store.
MatchLines(filename, fps, scores) ==
    UNION { { [file |-> filename, verdict |-> v,
               name |-> FingerprintName(fps[i]), fp |-> i]
              : v \in Verdicts(scores[i]) }
            : i \in 1..Len(fps) }

\* Variant: the comparison leaves the compared image in the store's first
\* element.
FingerprintsAfterMatch_Overwrite(fps, e) ==
    IF fps = << >> THEN fps ELSE [fps EXCEPT ![1].image = e]

\* The collection after FindMatchesForImage has gone through it: the loop
\* only reads its elements (compare takes the fingerprint as its reference
\* argument, attribute("comment") is a getter).
FingerprintsAfterMatch(fps, e) == fps

FindMatchesForImage(e, scores) ==
    /\ Fingerprints' = FingerprintsAfterMatch(Fingerprints, e)
    /\ stdout' = stdout \cup MatchLines(PathString(e), Fingerprints, scores)
    /\ scored' = scored \cup { [file |-> PathString(e), fp |-> i,
                                score |-> scores[i]]
                               : i \in 1..Len(Fingerprints) }

\* Only image.read is inside the try block: its exception is caught and
\* the loop continues.  compressType, resize and FindMatchesForImage (with
\* its image.compare) follow the try block, so an exception of theirs
\* leaves the thread's function.
FindOutcome(e) ==
    IF ~e.readable THEN "caught"
    ELSE IF ~e.sound THEN "uncaught"
    ELSE "matched"

FindDuplicates(w) ==
    /\ ~crashed
    /\ mode = "find"
    /\ pc[w] = "body"
    /\ LET e == next[w].entry
           ctl == LoopControl(next[w])
           out == FindOutcome(e)
       IN  /\ LoopStep(w, ctl, out)
           /\ IF ctl = "handle" /\ out = "matched"
              THEN /\ FindMatchesForImage(e,
                        [i \in 1..Len(Fingerprints) |->
                            Distortion(e, Fingerprints[i].image)])
                   /\ processed' = processed \cup {e}
              ELSE UNCHANGED << Fingerprints, stdout, scored, processed >>
    /\ UNCHANGED << mode, numThreads, dstDirectory, imageTree, fpTree, walker,
                    todo, Queue, Completed, travpc, mainpc, spawned, joined,
                    outFiles, stderr, returned, doneSeen,
                    loaded,
                    cli, widget >>

(***************************************************************************)
(* ExtractMetadata.                                                        *)
(***************************************************************************)
\* Characters and numbers.
DigitChars == << "0", "1", "2", "3", "4", "5", "6", "7", "8", "9" >>

IsDigit(ch) == \E k \in 1..10 : DigitChars[k] = ch

DigitValue(ch) == (CHOOSE k \in 1..10 : DigitChars[k] = ch) - 1

\* How many digits, at most k, stand at position pos of ts.
RECURSIVE CountDigits(_, _, _)
CountDigits(ts, pos, k) ==
    IF k = 0 \/ pos > Len(ts) THEN 0
    ELSE IF ~IsDigit(ts[pos]) THEN 0
    ELSE 1 + CountDigits(ts, pos + 1, k - 1)

\* The number written by the n digits that start at pos.
RECURSIVE NumberAt(_, _, _, _)
NumberAt(ts, pos, n, acc) ==
    IF n = 0 THEN acc
    ELSE NumberAt(ts, pos + 1, n - 1, 10 * acc + DigitValue(ts[pos]))

\* The vertical tab (character 11).
VerticalTab == ""

\* The characters for which isspace holds in the "C" locale.
WhiteSpace == { " ", "\t", "\n", VerticalTab, "\f", "\r" }

\* The parse state of std::get_time: `ok` while the error state is goodbit
\* (the format is followed only as long as it is), `failbit` once the
\* extraction has failed, `pos` the next character of the input, `stored`
\* the members of the tm written so far.
\*
\* One conversion: up to maxd digits, in lo..hi; the value is stored in the
\* next member of the tm, less `base` (tm_year counts from 1900, tm_mon
\* from 0).  With `blank` (%d), one white-space character standing before
\* the digits is passed over first.  A failed conversion stores nothing
\* and sets failbit.  A conversion that reaches the end of the input sets
\* eofbit: the value is stored, the rest of the format is not followed, and
\* failbit stays clear.
ReadNumber(ts, st, maxd, lo, hi, base, blank) ==
    IF ~st.ok THEN st
    ELSE LET from == IF blank /\ st.pos <= Len(ts)
                              /\ ts[st.pos] \in WhiteSpace
                     THEN st.pos + 1 ELSE st.pos
             n == CountDigits(ts, from, maxd)
             v == NumberAt(ts, from, n, 0)
         IN  IF n = 0 \/ v < lo \/ v > hi
             THEN [st EXCEPT !.ok = FALSE, !.failbit = TRUE]
             ELSE [ok |-> from + n <= Len(ts), failbit |-> FALSE,
                   pos |-> from + n,
                   stored |-> Append(st.stored, v - base)]

\* std::get_time, an ordinary character of the format: it must be next.
ReadChar(ts, st, ch) ==
    IF ~st.ok THEN st
    ELSE IF st.pos <= Len(ts) /\ ts[st.pos] = ch
    THEN [st EXCEPT !.pos = @ + 1]
    ELSE [st EXCEPT !.ok = FALSE, !.failbit = TRUE]

\* White space in the format, and the stream's own skip before extraction:
\* any run of white-space characters, also none.
RECURSIVE SkipSpaces(_, _)
SkipSpaces(ts, st) ==
    IF ~st.ok THEN st
    ELSE IF st.pos <= Len(ts) /\ ts[st.pos] \in WhiteSpace
    THEN SkipSpaces(ts, [st EXCEPT !.pos = @ + 1])
    ELSE st

\* The conversions and characters of "%Y:%m:%d %H:%M:%S", with the range
\* of values each conversion accepts, the base of the member it stores and
\* whether it passes over a blank before its digits.
ExifFormat ==
    << [kind |-> "number", maxd |-> 4, lo |-> 0, hi |-> 9999, base |-> 1900,
        blank |-> FALSE],
       [kind |-> "char", ch |-> ":"],
       [kind |-> "number", maxd |-> 2, lo |-> 1, hi |-> 12, base |-> 1,
        blank |-> FALSE],
       [kind |-> "char", ch |-> ":"],
       [kind |-> "number", maxd |-> 2, lo |-> 1, hi |-> 31, base |-> 0,
        blank |-> TRUE],
       [kind |-> "space"],
       [kind |-> "number", maxd |-> 2, lo |-> 0, hi |-> 23, base |-> 0,
        blank |-> FALSE],
       [kind |-> "char", ch |-> ":"],
       [kind |-> "number", maxd |-> 2, lo |-> 0, hi |-> 59, base |-> 0,
        blank |-> FALSE],
       [kind |-> "char", ch |-> ":"],
       [kind |-> "number", maxd |-> 2, lo |-> 0, hi |-> 60, base |-> 0,
        blank |-> FALSE] >>

ReadItem(ts, item, st) ==
    IF item.kind = "number"
    THEN ReadNumber(ts, st, item.maxd, item.lo, item.hi, item.base,
                    item.blank)
    ELSE IF item.kind = "char" THEN ReadChar(ts, st, item.ch)
    ELSE SkipSpaces(ts, st)

\* The format's items from the k-th on, applied in turn to parse state st.
RECURSIVE GetTimeFrom(_, _, _)
GetTimeFrom(ts, k, st) ==
    IF k > Len(ExifFormat) THEN st
    ELSE CHOOSE r \in { GetTimeFrom(ts, k + 1, s)
                        : s \in { ReadItem(ts, ExifFormat[k], st) } } : TRUE

\* ss >> std::get_time(&t, "%Y:%m:%d %H:%M:%S"): leading white space is
\* skipped, then the format is followed; `stored` are the members written,
\* tm_year, tm_mon, tm_mday, tm_hour, tm_min, tm_sec in this order, up to
\* the first conversion that failed or the end of the input.
GetTime(ts) ==
    GetTimeFrom(ts, 1,
        SkipSpaces(ts, [ok |-> TRUE, failbit |-> FALSE, pos |-> 1,
                        stored |-> << >>]))

\* The range of an int.
IntMax == 2147483647

IntMin == (0 - IntMax) - 1

\* a + b in an int, for b >= 0: past IntMax the sum wraps to IntMin.
AddInt(a, b) ==
    IF a > IntMax - b THEN IntMin + ((a - (IntMax - b)) - 1) ELSE a + b

\* A number in decimal.
RECURSIVE Decimal(_)
Decimal(n) ==
    IF n = IntMin THEN << "-" >> \o Decimal(IntMax \div 10) \o << "8" >>
    ELSE IF n < 0 THEN << "-" >> \o Decimal(0 - n)
    ELSE IF n < 10 THEN << DigitChars[n + 1] >>
    ELSE Decimal(n \div 10) \o << DigitChars[(n % 10) + 1] >>

\* A number as %m %d %H %M %S write it: padded with a zero to two digits.
TwoDigits(n) ==
    IF n >= 0 /\ n < 10 THEN << "0", DigitChars[n + 1] >> ELSE Decimal(n)

\* output << std::put_time(&t, "%Y-%m-%d %H:%M:%S") of the tm
\* << tm_year, tm_mon, tm_mday, tm_hour, tm_min, tm_sec >>.
PutTime(t) ==
    Decimal(AddInt(t[1], 1900)) \o << "-" >>
        \o TwoDigits(AddInt(t[2], 1)) \o << "-" >>
        \o TwoDigits(t[3]) \o << " " >> \o TwoDigits(t[4]) \o << ":" >>
        \o TwoDigits(t[5]) \o << ":" >> \o TwoDigits(t[6])

\* What a member of the tm, declared without an initial value, may hold
\* before get_time: any int.
UninitialisedInts == IntMin..IntMax

\* The tm after get_time has written `stored` into it: the members not
\* written keep what the uninitialised tm held.  When all six were written
\* there is the one tm.
TmsAfter(stored) ==
    IF Len(stored) = 6 THEN { stored }
    ELSE { t \in [1..6 -> UninitialisedInts] :
             \A i \in 1..Len(stored) : t[i] = stored[i] }

\* The strings ConvertExifTimestamp can return for `ts`: the tm is printed
\* whether or not get_time failed.
ConvertExifTimestamp(ts) ==
    UNION { { PutTime(t) : t \in TmsAfter(r.stored) }
            : r \in { GetTime(ts) } }

\* Variant: a failing image.read is not caught.
MetadataOutcome_NoCatch(e) ==
    IF ~e.readable THEN "uncaught"
    ELSE IF e.exif = << >> THEN "silent"
    ELSE "printed"

\* The whole body is inside the try block; a line is printed only for a
\* non-empty attribute.
MetadataOutcome(e) ==
    IF ~e.readable THEN "caught"
    ELSE IF e.exif # << >> THEN "printed"
    ELSE "silent"

ExtractMetadata(w) ==
    /\ ~crashed
    /\ mode = "metadata"
    /\ pc[w] = "body"
    /\ LET e == next[w].entry
           ctl == LoopControl(next[w])
           out == MetadataOutcome(e)
       IN  /\ LoopStep(w, ctl, out)
           /\ stdout' \in IF ctl = "handle" /\ out = "printed"
                           THEN { stdout \cup {[file |-> PathString(e),
                                                timestamp |-> timestamp]}
                                  : timestamp \in
                                        ConvertExifTimestamp(e.exif) }
                           ELSE { stdout }
           /\ processed' = IF ctl = "handle" /\ out \in {"printed", "silent"}
                           THEN processed \cup {e} ELSE processed
    /\ UNCHANGED << mode, numThreads, dstDirectory, imageTree, fpTree, walker,
                    todo, Queue, Completed, travpc, mainpc, spawned, joined,
                    Fingerprints, outFiles, stderr, scored, returned,
                    doneSeen, loaded,
                    cli, widget >>

(***************************************************************************)
(* The program: one run of main in one of the three modes.                 *)
(***************************************************************************)
TraversalThread == TraversePush \/ TraverseComplete

MainThread ==
    \/ LoadTraverse
    \/ LoadGetNext
    \/ LoadBody
    \/ LoadFinish
    \/ RunWorkersTraverse
    \/ SpawnThread
    \/ JoinThread
    \/ Finish
    \/ DeleteWalker

WorkerThread(w) ==
    \/ WorkerGetNext(w)
    \/ Generate(w)
    \/ FindDuplicates(w)
    \/ ExtractMetadata(w)

Next ==
    \/ TraversalThread
    \/ MainThread
    \/ \E w \in Workers : WorkerThread(w)

Spec == Init /\ [][Next]_vars

\* The runs looked at for progress: the worker pool in every mode, over
\* every thread count and every tree on whose images each backend call made
\* after the read returns, behind a Load of at most one entry.
FairInit ==
    /\ Init
    /\ Len(fpTree) <= 1
    /\ dstDirectory # "B"
    /\ \A e \in Range(imageTree) : e.readable => e.sound

\* Every thread that can take a step is eventually scheduled.
FairSpec ==
    /\ FairInit
    /\ [][Next]_vars
    /\ WF_vars(TraversalThread)
    /\ WF_vars(MainThread)
    /\ \A w \in Workers : WF_vars(WorkerThread(w))


(***************************************************************************)
(* FindMatchesForImage on its own: a loaded store, and each candidate      *)
(* image compared once with arbitrary distortions.                         *)
(***************************************************************************)
Candidates ==
    { e \in Universe : IsSupportedImage(e) /\ FindOutcome(e) = "matched" }

LoadableFingerprints ==
    { e \in FpUniverse : IsSupportedImage(e) /\ e.readable }

Scores == 0..MaxScore

MatchInit ==
    /\ mode = "find"
    /\ numThreads = 1
    /\ dstDirectory = ""
    /\ imageTree = << >>
    /\ fpTree \in InjSeqs(LoadableFingerprints, MaxFps)
    /\ Fingerprints = [i \in 1..Len(fpTree) |->
                          [image |-> fpTree[i], stem |-> fpTree[i].stem]]
    /\ walker = "none"
    /\ todo = << >>
    /\ Queue = << >>
    /\ Completed = FALSE
    /\ travpc = "none"
    /\ mainpc = "match"
    /\ spawned = 0
    /\ joined = 0
    /\ pc = [w \in Workers |-> "idle"]
    /\ next = [c \in Consumers |-> NoNext]
    /\ outFiles = {}
    /\ stdout = LoadOutput(Len(fpTree))
    /\ stderr = {}
    /\ returned = [e \in AllEntries |-> 0]
    /\ handled = {}
    /\ processed = {}
    /\ scored = {}
    /\ doneSeen = FALSE
    /\ loaded = TRUE
    /\ crashed = FALSE
    /\ cli = CliDispatched
    /\ widget = WidgetIdle

MatchImage ==
    \E e \in Candidates \ processed :
    \E scores \in [1..Len(Fingerprints) -> Scores] :
        /\ mainpc = "match"
        /\ FindMatchesForImage(e, scores)
        /\ processed' = processed \cup {e}
        /\ UNCHANGED << mode, numThreads, dstDirectory, imageTree, fpTree,
                        walker, todo, Queue, Completed, travpc, mainpc,
                        spawned, joined, pc, next, outFiles,
                        stderr, returned, handled, doneSeen, loaded,
                        crashed,
                    cli, widget >>

MatchNext == MatchImage

MatchSpec == MatchInit /\ [][MatchNext]_vars


(***************************************************************************)
(* main: option handling and the checks before a mode is run.              *)
(***************************************************************************)
ModeFlags == {"g", "f", "m"}

\* Directory arguments: not given, a path that is no directory, a directory.
Dirs == {"", "missing", "dir"}

\* boost::filesystem::is_directory
IsDirectory(d) == d = "dir"

\* What -t (or, without it, hardware_concurrency) leaves in numThreads.
ThreadArgs == (0 - 1)..MaxThreads

\* The locals of main after the getopt loop.  The three mode flags are
\* declared without an initial value: a flag whose option was not given
\* holds whatever the build left there.
CommandLines ==
    { [pc |-> "start", given |-> G, generateMode |-> g,
       findDuplicateMode |-> f, metadataMode |-> m, srcDirectory |-> sd,
       dstDirectory |-> dd, numThreads |-> t] :
        G \in SUBSET ModeFlags, g \in BOOLEAN, f \in BOOLEAN, m \in BOOLEAN,
        sd \in Dirs, dd \in Dirs, t \in ThreadArgs }

FlagsAsParsed(c) ==
    /\ "g" \in c.given => c.generateMode
    /\ "f" \in c.given => c.findDuplicateMode
    /\ "m" \in c.given => c.metadataMode

BoolToInt(b) == IF b THEN 1 ELSE 0

areDirectoriesValid(src, dst) == IsDirectory(src) /\ IsDirectory(dst)

\* std::thread::hardware_concurrency() of the machine.
HardwareConcurrency == MaxThreads

\* What areDirectoriesValid prints: the first argument that is no directory.
NotADirectory(src, dst) ==
    IF ~IsDirectory(src) THEN {[notADirectory |-> src]}
    ELSE IF ~IsDirectory(dst) THEN {[notADirectory |-> dst]}
    ELSE {}

UsageText == [usage |-> "photo-fingerprint:"]

UsingThreads(n) == [using |-> n, maximum |-> HardwareConcurrency]

\* How main ends for the parsed options: usage() and exit(1), return 1, or
\* the mode it goes on to run.
MainOutcome(c) ==
    IF BoolToInt(c.generateMode) + BoolToInt(c.findDuplicateMode)
         + BoolToInt(c.metadataMode) # 1
    THEN "usage"
    ELSE IF (c.generateMode \/ c.findDuplicateMode)
              /\ (c.srcDirectory = "" \/ c.dstDirectory = "")
    THEN "usage"
    ELSE IF c.numThreads < 1
    THEN "usage"
    ELSE IF ~c.metadataMode
              /\ ~areDirectoriesValid(c.srcDirectory, c.dstDirectory)
    THEN "return1"
    ELSE IF c.generateMode THEN "generate"
    ELSE IF c.findDuplicateMode THEN "find"
    ELSE "metadata"

\* What main has printed to std::cerr when it ends or hands over: the usage
\* text, or the thread count followed, in the modes that check them, by the
\* directory found wrong.
MainDiagnostics(c) ==
    IF MainOutcome(c) = "usage" THEN {UsageText}
    ELSE {UsingThreads(c.numThreads)}
            \cup (IF c.metadataMode THEN {}
                  ELSE NotADirectory(c.srcDirectory, c.dstDirectory))

\* The thread count the mode runs with: generate and metadata are handed
\* main's count; find-duplicates is not handed one and runs with a count of
\* the store's own choosing.
ThreadsOf(out, c) ==
    IF out = "find" THEN 1..MaxThreads ELSE {c.numThreads}

MainInit ==
    /\ cli \in { c \in CommandLines : FlagsAsParsed(c) }
    /\ mode = "unset"
    /\ numThreads = 0
    /\ dstDirectory = ""
    /\ imageTree = << >>
    /\ fpTree = << >>
    /\ walker = "none"
    /\ todo = << >>
    /\ Queue = << >>
    /\ Completed = FALSE
    /\ travpc = "none"
    /\ mainpc = "main"
    /\ spawned = 0
    /\ joined = 0
    /\ pc = [w \in Workers |-> "idle"]
    /\ next = [c \in Consumers |-> NoNext]
    /\ Fingerprints = << >>
    /\ outFiles = {}
    /\ stdout = {}
    /\ stderr = {}
    /\ returned = [e \in AllEntries |-> 0]
    /\ handled = {}
    /\ processed = {}
    /\ scored = {}
    /\ doneSeen = FALSE
    /\ loaded = FALSE
    /\ crashed = FALSE
    /\ widget = WidgetIdle

\* main up to the call of the chosen mode.
Main ==
    /\ mainpc = "main"
    /\ cli.pc = "start"
    /\ LET out == MainOutcome(cli)
           run == out \in Modes
       IN  /\ cli' = [cli EXCEPT !.pc = IF run THEN "dispatched" ELSE out]
           /\ mode' = IF run THEN out ELSE mode
           /\ numThreads' \in IF run THEN ThreadsOf(out, cli)
                                    ELSE {numThreads}
           /\ stderr' = stderr \cup MainDiagnostics(cli)
           /\ dstDirectory' = IF run THEN cli.dstDirectory ELSE dstDirectory
           /\ mainpc' = IF run THEN MainEntry(out) ELSE "exit1"
    /\ UNCHANGED << imageTree, fpTree, walker, todo, Queue, Completed,
                    travpc, spawned, joined, pc, next, Fingerprints,
                    outFiles, stdout, returned, handled, processed,
                    scored, doneSeen, loaded, crashed, widget >>

\* main, and the first steps of the mode it runs: the traversals started
\* and the threads created.
MainNext ==
    \/ Main
    \/ LoadTraverse
    \/ RunWorkersTraverse
    \/ SpawnThread

MainSpec == MainInit /\ [][MainNext]_vars

(***************************************************************************)
(* The review widget (frontend/widget.cpp): a duplicates file is selected  *)
(* once, then the user clicks skip, delete-left or delete-right.           *)
(***************************************************************************)
MaxPairs == 2

MaxClicks == 3

\* Elements a duplicates file can hold: arrays of two paths.
PairUniverse == { << "l1", "r1" >>, << "l2", "r2" >>, << "l3", "r3" >> }

\* What the file dialog and the file system can hand to the select handler:
\* no file chosen, a file that cannot be opened, a document that is not an
\* array, or an array of pairs.
SelectedFiles ==
    { [kind |-> "cancelled"], [kind |-> "unreadable"],
      [kind |-> "json", isArray |-> FALSE, items |-> << >>] }
        \cup { [kind |-> "json", isArray |-> TRUE, items |-> a]
               : a \in InjSeqs(PairUniverse, MaxPairs) }

\* QJsonDocument::array(): the document's array, empty if it is none.
DocumentArray(file) == IF file.isArray THEN file.items ELSE << >>

\* QJsonArray::at(i).toArray(): the i-th element (from 0); out of bounds the
\* value is Undefined, which converts to the empty array.
JsonAt(array, i) ==
    IF i >= 0 /\ i < Len(array) THEN array[i + 1] ELSE << >>

\* QJsonArray::at(i).toString(): the empty string out of bounds.
JsonStringAt(array, i) ==
    IF i >= 0 /\ i < Len(array) THEN array[i + 1] ELSE ""

\* The widget after construction.  The counters start at zero.
WidgetConstructed ==
    [pc |-> "constructed",
     jsonDuplicateArray |-> << >>,
     completedComparisons |-> 0,
     totalComparisons |-> 0,
     leftFilename |-> "",
     rightFilename |-> "",
     index |-> 0 - 1,
     requested |-> << >>,
     clicked |-> "none",
     clicks |-> 0]

\* loadNextPair: reads the element at completedComparisons, shows its two
\* paths, and increments the counter.  `index` is the index it read.
loadNextPair(wd) ==
    LET imagePair == JsonAt(wd.jsonDuplicateArray, wd.completedComparisons)
    IN  [wd EXCEPT !.index = wd.completedComparisons,
                   !.leftFilename = JsonStringAt(imagePair, 0),
                   !.rightFilename = JsonStringAt(imagePair, 1),
                   !.completedComparisons = @ + 1]

\* parseDuplicateFile followed by the rest of the select handler.
LoadFile(wd, file) ==
    loadNextPair([wd EXCEPT !.pc = "loaded",
                            !.jsonDuplicateArray = DocumentArray(file),
                            !.totalComparisons = Len(DocumentArray(file))])

\* The variables of the command-line program, which the widget never touches.
engineVars ==
    << mode, numThreads, dstDirectory, imageTree, fpTree, walker, todo, Queue,
       Completed, travpc, mainpc, spawned, joined, pc, next, Fingerprints,
       outFiles, stdout, stderr, returned, handled, processed, scored,
       doneSeen, loaded, crashed, cli >>

WidgetInit ==
    /\ widget = WidgetConstructed
    /\ cli = CliDispatched
    /\ mode = "unset"
    /\ numThreads = 0
    /\ dstDirectory = ""
    /\ imageTree = << >>
    /\ fpTree = << >>
    /\ walker = "none"
    /\ todo = << >>
    /\ Queue = << >>
    /\ Completed = FALSE
    /\ travpc = "none"
    /\ mainpc = "widget"
    /\ spawned = 0
    /\ joined = 0
    /\ pc = [w \in Workers |-> "idle"]
    /\ next = [c \in Consumers |-> NoNext]
    /\ Fingerprints = << >>
    /\ outFiles = {}
    /\ stdout = {}
    /\ stderr = {}
    /\ returned = [e \in AllEntries |-> 0]
    /\ handled = {}
    /\ processed = {}
    /\ scored = {}
    /\ doneSeen = FALSE
    /\ loaded = FALSE
    /\ crashed = FALSE

\* The select button is disabled once a file name was chosen; a file that
\* cannot be opened makes parseDuplicateFile throw out of the handler.
on_selectFileButton_clicked ==
    /\ widget.pc = "constructed"
    /\ \E file \in SelectedFiles :
          widget' = IF file.kind = "cancelled" THEN widget
                    ELSE IF file.kind = "unreadable"
                    THEN [widget EXCEPT !.pc = "terminated"]
                    ELSE LoadFile(widget, file)
    /\ UNCHANGED engineVars

\* The three buttons are enabled by the select handler after the load.
on_skipButton_clicked ==
    /\ widget.pc = "loaded"
    /\ widget.clicks < MaxClicks
    /\ widget' = loadNextPair([widget EXCEPT !.clicked = "skip",
                                             !.clicks = @ + 1])
    /\ UNCHANGED engineVars

\* Reads the element at completedComparisons, reports its left path, then
\* loads the next pair.
on_deleteLeftButton_clicked ==
    /\ widget.pc = "loaded"
    /\ widget.clicks < MaxClicks
    /\ LET imagePair == JsonAt(widget.jsonDuplicateArray,
                               widget.completedComparisons)
           leftPath == JsonStringAt(imagePair, 0)
       IN  widget' = loadNextPair([widget EXCEPT
                                      !.requested = << leftPath >>,
                                      !.clicked = "deleteLeft",
                                      !.clicks = @ + 1])
    /\ UNCHANGED engineVars

on_deleteRightButton_clicked ==
    /\ widget.pc = "loaded"
    /\ widget.clicks < MaxClicks
    /\ LET imagePair == JsonAt(widget.jsonDuplicateArray,
                               widget.completedComparisons)
           rightPath == JsonStringAt(imagePair, 1)
       IN  widget' = loadNextPair([widget EXCEPT
                                      !.requested = << rightPath >>,
                                      !.clicked = "deleteRight",
                                      !.clicks = @ + 1])
    /\ UNCHANGED engineVars

WidgetNext ==
    \/ on_selectFileButton_clicked
    \/ on_skipButton_clicked
    \/ on_deleteLeftButton_clicked
    \/ on_deleteRightButton_clicked

WidgetSpec == WidgetInit /\ [][WidgetNext]_vars


(***************************************************************************)
(* Properties.                                                             *)
(***************************************************************************)
RunStarted == walker = "run"

ActiveWorkers == 1..numThreads

\* Every entry of the walked tree has been returned by GetNext exactly once.
AllDelivered == \A e \in Range(imageTree) : returned[e] = 1

NoneDone(n) == ~n.has /\ n.completed

\* Worker w holds the pair its latest GetNext call returned.
HoldsReturn(w) == pc[w] \in {"body", "exited"}

\* C1 (safety part): no entry is returned twice, and GetNext returns
\* (no path, done) to a worker only when the traversal has enqueued
\* everything and every entry has been delivered.
C1_NoLossNoEarlyDone ==
    /\ \A e \in Universe : returned[e] <= 1
    /\ \A w \in Workers :
          (HoldsReturn(w) /\ NoneDone(next[w])) =>
              /\ todo = << >>
              /\ Queue = << >>
              /\ travpc # "walking"
              /\ AllDelivered

\* another worker.
C2_NoDuplicateDispatch ==
    /\ \A i, j \in 1..Len(Queue) : i # j => Queue[i] # Queue[j]
    /\ \A e \in AllEntries :
          /\ returned[e] <= 1
          /\ returned[e] = 1 => \A i \in 1..Len(Queue) : Queue[i] # e
    /\ \A v, w \in Workers :
          (v # w /\ pc[v] = "body" /\ pc[w] = "body"
             /\ next[v].has /\ next[w].has)
          => next[v].entry # next[w].entry

\* Two workers hold a dequeued path at the same time while a third path is
\* still queued.
C2_Witness ==
    /\ pc[1] = "body" /\ next[1].has
    /\ pc[2] = "body" /\ next[2].has
    /\ Queue # << >>

\* RunWorkers has returned: every thread has left its loop and been joined,
\* and Finish has joined the traversal thread.
RunReturned ==
    /\ mainpc = "done"
    /\ travpc = "joined"
    /\ joined = numThreads
    /\ \A w \in ActiveWorkers : pc[w] = "exited" /\ NoneDone(next[w])

\* C3: under fair scheduling every run of the worker pool terminates (the
\* traversal completes, every worker sees (no path, done) and leaves its
\* loop, the joins and Finish return), and no worker leaves its loop before
\* the traversal thread has set the completion flag.
C3_RunTerminates ==
    /\ [] (\A w \in Workers : pc[w] = "exited" => Completed)
    /\ (RunStarted ~> RunReturned)

\* A run with two workers over a non-empty tree has returned.
C3_Witness ==
    /\ RunReturned
    /\ numThreads >= 2
    /\ imageTree # << >>

\* Consumer c receives the result of a GetNext call in this step.
GetNextReturns(c) ==
    IF c = 0 THEN mainpc = "load_getnext" /\ mainpc' = "load_body"
             ELSE pc[c] = "getnext" /\ pc'[c] = "body"

\* C4: every GetNext call returns (path, not done), (no path, not done) or
\* (no path, done); a returned path is never dropped by the caller's loop
\* as "no entry"; and once a call has returned (no path, done), every later
\* call on that walker returns (no path, done).
C4_ThreeOutcomesDoneTerminal ==
    [][ \A c \in Consumers :
           GetNextReturns(c) =>
              /\ ~(next'[c].has /\ next'[c].completed)
              /\ next'[c].has =>
                    LoopControl(next'[c]) \in {"discard", "handle"}
              /\ doneSeen => NoneDone(next'[c]) ]_vars

\* A worker was told (no path, done) after another worker had already been
\* told so.
C4_Witness ==
    /\ doneSeen
    /\ pc[1] = "exited" /\ NoneDone(next[1])
    /\ pc[2] = "body" /\ NoneDone(next[2])

\* C5: in find-duplicates mode no worker thread exists, no candidate is
\* scored and the workers' traversal is not started before Load has
\* returned; while Load's traversal is alive no worker runs.
C5_LoadBeforeWorkers ==
    mode = "find" =>
        /\ ((\E w \in Workers : pc[w] # "idle") \/ scored # {}
              \/ walker \in {"run", "deleted"} \/ spawned > 0) => loaded
        /\ walker = "load" =>
              /\ \A w \in Workers : pc[w] = "idle"
              /\ scored = {}
              /\ ~loaded

\* A candidate is scored against a store that Load filled.
C5_Witness ==
    /\ mode = "find"
    /\ loaded
    /\ Fingerprints # << >>
    /\ scored # {}

\* A supported file on which every backend call succeeds.
Processable(e) == IsSupportedImage(e) /\ e.readable /\ e.sound

\* C6: in each of the three modes, and wherever a corrupt or unreadable
\* file stands among the files the run reads, the failure of a backend call
\* on it ends neither the worker that hits it nor the run: no exception
\* ever leaves a thread, a worker leaves its loop only on (no path, done),
\* and when the run has returned every other supported file of the tree
\* has been processed by the mode's handler.
C6_CorruptFileDoesNotStopOthers ==
    /\ ~crashed
    /\ \A w \in Workers :
          (pc[w] = "exited") => NoneDone(next[w])
    /\ mainpc = "done" =>
          \A e \in Range(imageTree) : Processable(e) => e \in processed

\* What Generate leaves in the destination when one thread works through
\* the tree in traversal order.
RECURSIVE SequentialGenerate(_, _, _)
SequentialGenerate(dest, tree, files) ==
    IF tree = << >> THEN files
    ELSE LET e == Head(tree) IN
         SequentialGenerate(dest, Tail(tree),
            IF IsSupportedImage(e) /\ e.readable /\ e.sound
            THEN WriteFile(files, OutputFilename(dest, e), e)
            ELSE files)

\* C7: when Generate has returned, the output files (names and content)
\* are those of the run with one thread, for every thread count and every
\* scheduling, also when files in different subdirectories share a stem.
C7_OutputIndependentOfThreads ==
    (mode = "generate" /\ mainpc = "done") =>
        outFiles = SequentialGenerate(dstDirectory, imageTree, {})

\* The match lines among the lines printed (Load prints lines of its own).
MatchOutput == { l \in stdout : "verdict" \in DOMAIN l }

\* The lines printed for candidate `file` and fingerprint number i.
LinesFor(file, i) == { l \in MatchOutput : l.file = file /\ l.fp = i }

MatchLine(file, i, v) ==
    [file |-> file, verdict |-> v,
     name |-> FingerprintName(Fingerprints[i]), fp |-> i]

\* C8: each (candidate, fingerprint) pair is classified by its distortion and
\* the two thresholds alone: below the low threshold exactly one "is
\* identical to" line, from the low up to the high threshold exactly one
\* "is similar to" line, at or above the high threshold no line; score 0 is
\* identical; a candidate has one line per fingerprint scored below the
\* high threshold.
C8_ClassificationByThresholds ==
    /\ \A s \in scored :
          /\ s.score < LowDistortionThreshold =>
                LinesFor(s.file, s.fp)
                    = {MatchLine(s.file, s.fp, "is identical to")}
          /\ (LowDistortionThreshold <= s.score
                /\ s.score < HighDistortionThreshold) =>
                LinesFor(s.file, s.fp)
                    = {MatchLine(s.file, s.fp, "is similar to")}
          /\ s.score >= HighDistortionThreshold =>
                LinesFor(s.file, s.fp) = {}
          /\ s.score = 0 =>
                MatchLine(s.file, s.fp, "is identical to") \in MatchOutput
    /\ \A e \in processed :
          Cardinality({ l \in MatchOutput : l.file = PathString(e) })
            = Cardinality({ s \in scored :
                              /\ s.file = PathString(e)
                              /\ s.score < HighDistortionThreshold })

\* One candidate was compared with two fingerprints, one at distortion 0
\* and one exactly at the low threshold, and another candidate scored
\* exactly at the high threshold.
C8_Witness ==
    \E s, t, u \in scored :
        /\ s.file = t.file /\ s.fp # t.fp
        /\ s.score = 0
        /\ t.score = LowDistortionThreshold
        /\ u.file # s.file
        /\ u.score = HighDistortionThreshold

Unsupported(e) == ~IsSupportedImage(e)

\* Some output of the run names path `p`: a printed line, a written file's
\* comment, or an image loaded into the store.
Mentions(p) ==
    \/ \E l \in stdout :
          \/ "line" \in DOMAIN l /\ l.line = p
          \/ "file" \in DOMAIN l /\ l.file = p
          \/ "load" \in DOMAIN l /\ l.load = p
    \/ \E l \in stderr : l.skipping = p
    \/ \E f \in outFiles : f.comment = p
    \/ \E i \in 1..Len(Fingerprints) :
          PathString(Fingerprints[i].image) = p

\* C9: in Load's loop and in each mode's loop, an entry whose path is not a
\* supported image never reaches the handler (it is not read, printed or
\* written), and it is still taken off the queue: when the loop has ended
\* every unsupported entry has been dequeued and the queue is empty.
C9_UnsupportedDiscarded ==
    /\ \A e \in AllEntries : Unsupported(e) =>
          /\ e \notin handled
          /\ e \notin processed
          /\ ~Mentions(PathString(e))
    /\ mainpc = "done" =>
          /\ Queue = << >>
          /\ \A e \in Range(imageTree) : Unsupported(e) => returned[e] = 1
    /\ loaded =>
          \A e \in Range(fpTree) : Unsupported(e) => returned[e] = 1

\* A run has returned from a tree in which an unsupported entry stood
\* before a supported one: the first was dequeued and dropped, the second
\* processed.
C9_Witness ==
    /\ mainpc = "done"
    /\ \E i, j \in 1..Len(imageTree) :
          /\ i < j
          /\ Unsupported(imageTree[i])
          /\ returned[imageTree[i]] = 1
          /\ imageTree[j] \in processed

\* C10: after a Generate run whose destination was given with its trailing
\* separator, every successfully processed source has its own file in the
\* destination, named by the source's filename with the extension replaced
\* by .tif and carrying the source's path as comment: none was overwritten
\* by another source's fingerprint.
C10_OneFilePerSource ==
    (mode = "generate" /\ mainpc = "done" /\ dstDirectory = "B/") =>
        \A e \in processed :
            \E f \in outFiles :
                /\ f.name = "B/" \o e.stem \o ".tif"
                /\ f.comment = PathString(e)


\* The modes the command line asks for.
RequestedModes(c) == c.given

\* The configuration the user gave is one the program must refuse.
InvalidConfiguration(c) ==
    \/ Cardinality(RequestedModes(c)) # 1
    \/ c.numThreads < 1
    \/ ({"g", "f"} \cap c.given # {}
          /\ ~areDirectoriesValid(c.srcDirectory, c.dstDirectory))
    \/ ("m" \in c.given /\ ~IsDirectory(c.srcDirectory))

\* No mode flag holds a stray value: a flag whose option was not given
\* reads as false.
FlagsClean(c) ==
    /\ c.generateMode <=> "g" \in c.given
    /\ c.findDuplicateMode <=> "f" \in c.given
    /\ c.metadataMode <=> "m" \in c.given

\* C11: for a command line with zero or several modes, a required
\* directory argument missing or naming no directory, or a thread count
\* below 1, in any of the three modes, main ends with a failure and no
\* traversal is started and no worker thread created (stated for the runs
\* in which the flags that were not given read as false).
C11_InvalidConfigurationNeverRuns ==
    (FlagsClean(cli) /\ InvalidConfiguration(cli)) =>
        /\ cli.pc \in {"start", "usage", "return1"}
        /\ walker = "none"
        /\ spawned = 0
        /\ \A w \in Workers : pc[w] = "idle"


\* "2019-12-07 23:59:60", character by character.
PaddedIso ==
    << "2", "0", "1", "9", "-", "1", "2", "-", "0", "7", " ",
       "2", "3", ":", "5", "9", ":", "6", "0" >>

\* A capture time as the line shows it: the year, month, day, hour, minute
\* and second of "YYYY:MM:DD HH:MM:SS" in the same places, the two colons of
\* the date turned into hyphens, a blank in the day's first place into a
\* zero.
IsoLayout(x) ==
    [i \in 1..Len(x) |->
        IF i \in {5, 8} THEN "-"
        ELSE IF i = 9 /\ ~IsDigit(x[i]) THEN "0"
        ELSE x[i]]

MetadataLinesFor(e) == { l \in stdout : l.file = PathString(e) }

HasTimestamp(e) == IsSupportedImage(e) /\ e.readable /\ e.exif # << >>

\* C12: ExtractMetadata prints exactly one line (path, reformatted
\* timestamp) for each supported, readable image with a non-empty capture
\* timestamp, and nothing at all, on either stream, for a supported image
\* that lacks the attribute or cannot be read; the worker goes on (no
\* failure ends the program), so when the run has returned every image with
\* a timestamp has its line.  The timestamp of the line is the capture time
\* in the layout YYYY-MM-DD HH:MM:SS.
C12_OneLinePerTimestamp ==
    mode = "metadata" =>
        /\ ~crashed
        /\ stderr = {}
        /\ \A l \in stdout :
              \E e \in handled :
                 /\ l.file = PathString(e)
                 /\ HasTimestamp(e)
                 /\ l.timestamp = IsoLayout(e.exif)
        /\ \A e \in handled :
              Cardinality(MetadataLinesFor(e))
                 = IF HasTimestamp(e) THEN 1 ELSE 0
        /\ mainpc = "done" =>
              \A e \in Range(imageTree) :
                 HasTimestamp(e) => Cardinality(MetadataLinesFor(e)) = 1

\* A run over an image without the attribute, an unreadable image and an
\* image stamped "2019:12: 7 23:59:60" has returned: the only line is the
\* third image's, with the timestamp as 2019-12-07 23:59:60.
C12_Witness ==
    /\ mode = "metadata"
    /\ mainpc = "done"
    /\ \E a, b, c \in handled :
          /\ HasTimestamp(a)
          /\ a.exif = PaddedStamp
          /\ b.readable /\ b.exif = << >>
          /\ ~c.readable
          /\ stdout = {[file |-> PathString(a), timestamp |-> PaddedIso]}


WalkerAlive == walker \in {"load", "run"}

\* The step is dw.Finish() returning.
FinishStep == travpc # "joined" /\ travpc' = "joined"

\* The step destroys the walker (end of Load's scope, or delete).
DestroyStep == WalkerAlive /\ walker' \in {"destroyed", "deleted"}

\* The step is a call of GetNext by some consumer.
GetNextStep ==
    \/ mainpc = "load_getnext" /\ mainpc' = "load_body"
    \/ \E w \in Workers : pc[w] = "getnext" /\ pc'[w] = "body"

\* Consumer c has been handed (no path, done) and has left its loop: Load,
\* the walker's only consumer, stands after its loop; a worker thread has
\* returned, still holding the pair.
ObservedDoneAndExited(c) ==
    IF c = 0
    THEN doneSeen /\ mainpc = "load_finish"
    ELSE ~next[c].has /\ next[c].completed /\ pc[c] = "exited"

\* C13: Finish returns once per walker, only after every consumer of that
\* walker has observed (no path, done) and left its loop (in RunWorkers, all
\* numThreads threads joined); the walker is destroyed only after Finish has
\* returned; no GetNext is called after Finish or after the destruction.
C13_FinishOnceAfterConsumers ==
    [][ /\ FinishStep =>
              /\ WalkerAlive
              /\ walker = "load" => ObservedDoneAndExited(0)
              /\ walker = "run" =>
                    /\ joined = numThreads
                    /\ spawned = numThreads
                    /\ \A w \in 1..numThreads : ObservedDoneAndExited(w)
        /\ DestroyStep => travpc' = "joined"
        /\ (travpc = "joined" \/ ~WalkerAlive) => ~GetNextStep
        /\ travpc = "joined" =>
              (travpc' = "joined" \/ (walker' # walker /\ ~WalkerAlive))
        /\ (mainpc' = "done" \/ (loaded' /\ ~loaded)) => travpc' = "joined"
      ]_vars

\* A find-duplicates run with two workers: Load's walker was finished and
\* destroyed, and Finish has just returned on RunWorkers' walker.
C13_Witness ==
    /\ mode = "find"
    /\ loaded
    /\ numThreads = 2
    /\ mainpc = "delete"
    /\ walker = "run"
    /\ travpc = "joined"
    /\ \A w \in 1..numThreads : ObservedDoneAndExited(w)


\* C14: the traversal-complete flag of a walker, once set, stays set for as
\* long as that walker lives, and the only step that sets it is the
\* traversal thread's, taken when its walk has nothing left to visit.
C14_FlagMonotonic ==
    [][ /\ (Completed /\ walker' = walker) => Completed'
        /\ (~Completed /\ Completed') =>
              /\ travpc = "walking"
              /\ todo = << >>
              /\ travpc' = "done"
              /\ walker' = walker
              /\ Queue' = Queue
      ]_vars

\* The second walker of a find-duplicates run (the first one's flag was set
\* during Load) has its flag set while paths are still queued and a worker
\* is between two calls of GetNext.
C14_Witness ==
    /\ loaded
    /\ walker = "run"
    /\ Completed
    /\ Queue # << >>
    /\ \E w \in Workers : pc[w] = "getnext"


SupportedIn(tree) == { e \in Range(tree) : IsSupportedImage(e) }

StoredAs(e) == { k \in DOMAIN Fingerprints : Fingerprints[k].image = e }

\* C15: when Load has returned, the store holds exactly one Fingerprint
\* for each supported image of the fingerprint directory, none missing, none
\* twice and none else, however the loop interleaved with the traversal; and
\* at Load's return the traversal thread has ended and the queue is empty.
C15_LoadStoresEachImageOnce ==
    loaded =>
        /\ \A e \in SupportedIn(fpTree) : Cardinality(StoredAs(e)) = 1
        /\ \A k \in DOMAIN Fingerprints :
              /\ Fingerprints[k].image \in SupportedIn(fpTree)
              /\ Fingerprints[k].stem = Fingerprints[k].image.stem
        /\ Len(Fingerprints) = Cardinality(SupportedIn(fpTree))
        /\ mainpc = "run" =>
              /\ travpc = "joined"
              /\ todo = << >>
              /\ Queue = << >>
              /\ returned = [e \in AllEntries |->
                                IF e \in Range(fpTree) THEN 1 ELSE 0]

\* Load has just returned from a directory with two fingerprints: both are
\* in the store.
C15_Witness ==
    /\ loaded
    /\ mainpc = "run"
    /\ Len(fpTree) = 2
    /\ Len(Fingerprints) = 2
    /\ Fingerprints[1].image # Fingerprints[2].image


ScoredFiles == { sc.file : sc \in scored }

\* C16: from Load's return on, the stored collection never changes: no step
\* of a FindDuplicates worker, and so no call of FindMatchesForImage, adds,
\* removes or alters an element, in any interleaving of the workers.
C16_StoreReadOnlyWhileMatching ==
    [][ loaded => Fingerprints' = Fingerprints ]_vars

\* Two worker threads have compared two images with a store of two
\* fingerprints and the run has returned.
C16_Witness ==
    /\ mode = "find"
    /\ numThreads = 2
    /\ mainpc = "done"
    /\ Len(Fingerprints) = 2
    /\ Cardinality(ScoredFiles) = 2


\* The fingerprint Load would store for a file Generate wrote.
LoadedFrom(f) == [image |-> [comment |-> f.comment], stem |-> f.name]

\* C17: every printed match line names its fingerprint by the stored
\* comment attribute when that is non-empty and by the fingerprint file's
\* stem only when it is empty; every file Generate writes carries the path
\* of the source it was made from as a non-empty comment, so a fingerprint
\* made by Generate is reported under that path.
C17_NameIsCommentElseStem ==
    /\ mode = "find" =>
          \A l \in MatchOutput :
             /\ l.fp \in DOMAIN Fingerprints
             /\ LET fp == Fingerprints[l.fp] IN
                   /\ fp.image.comment # "" => l.name = fp.image.comment
                   /\ fp.image.comment = "" => l.name = fp.stem
    /\ mode = "generate" =>
          \A f \in outFiles :
             /\ f.comment # ""
             /\ \E e \in processed : f.comment = PathString(e)
             /\ FingerprintName(LoadedFrom(f)) = f.comment

\* One run has printed a match with a fingerprint that carries a source
\* path as comment, named by that path, and a match with a fingerprint
\* without comment, named by its stem.
C17_Witness ==
    /\ mode = "find"
    /\ \E l, m \in MatchOutput :
          /\ Fingerprints[l.fp].image.comment = "a/x.jpg"
          /\ Fingerprints[l.fp].stem = "x"
          /\ l.name = "a/x.jpg"
          /\ Fingerprints[m.fp].image.comment = ""
          /\ m.name = "z"


\* C18: once a duplicates file is loaded, and after any clicks, the index
\* last used to read the pair array is a valid index of the array and
\* completedComparisons does not exceed totalComparisons.
C18_IndexInRange ==
    widget.pc = "loaded" =>
        /\ widget.index >= 0
        /\ widget.index < Len(widget.jsonDuplicateArray)
        /\ widget.completedComparisons <= widget.totalComparisons

\* The step is a click on delete-left (delete-right).
DeleteClick(side) ==
    /\ widget.pc = "loaded"
    /\ widget'.clicks = widget.clicks + 1
    /\ widget'.clicked = side

\* C19: a click on delete-left (delete-right) reports the left (right) path
\* of the pair on display when the button was clicked.
C19_DeletesDisplayedPair ==
    [][ /\ DeleteClick("deleteLeft") =>
              widget'.requested = << widget.leftFilename >>
        /\ DeleteClick("deleteRight") =>
              widget'.requested = << widget.rightFilename >>
      ]_vars

====
